---- MODULE Spec2Model ----
(***************************************************************************)
(* Two tutorial notebooks of kyuni22/kagglebreak, each run in an IPython   *)
(* kernel:                                                                 *)
(*   - "Using standard interface"   (src/unnamed/part_000)                 *)
(*   - "Deal with missing values"   (src/xgboost_lec/3. Going deeper/      *)
(*                                   3.5 Deal with missing values.ipynb)   *)
(* A kernel's state is its global namespace (a dictionary from names to    *)
(* values), the output of the cell executed last and, for the second       *)
(* notebook, the state of numpy's global random generator.  One action per *)
(* code cell executes the whole cell: its statements in order, stopping at *)
(* the first exception, the names assigned before it staying bound.        *)
(*                                                                         *)
(* Numbers that are fractions in the source are kept in tenths             *)
(* (0.5 is 5, 1.0 is 10); array positions keep Python's 0-based indices.   *)
(***************************************************************************)
EXTENDS Integers, Sequences, FiniteSets, TLC

VARIABLES
    files,      \* the two libsvm files on disk: their label columns
    learned,    \* what a booster trained on the train file predicts per test row
    std,        \* namespace of the standard-interface kernel
    stdout,     \* output of the cell that kernel executed last
    stdcur,     \* 0: cells are run by hand in any order; k > 0: "Run All" is at cell k
    rng,        \* per missing-values kernel: numpy's global generator
    mv,         \* per missing-values kernel: its namespace
    mvout,      \* per missing-values kernel: output of the cell executed last
    mvcur,      \* per missing-values kernel: as stdcur
    runs        \* per missing-values kernel: the training configurations it has run

vars == <<files, learned, std, stdout, stdcur, rng, mv, mvout, mvcur, runs>>
stdVars == <<files, learned, std, stdout, stdcur>>
mvVars == <<rng, mv, mvout, mvcur, runs>>

----------------------------------------------------------------------------
(* Bounds of the model *)

\* rows of the test file
MaxRows == 2
\* seeds the operating system may hand a fresh generator
MaxEntropy == 2
\* predicted probabilities, in tenths: below, at and above the threshold
Probs == {4, 5, 6}

----------------------------------------------------------------------------
(* Python namespaces and cell outputs *)

Empty == << >>

Bound(ns, n) == n \in DOMAIN ns

Bind(ns, n, v) == [k \in DOMAIN ns \cup {n} |-> IF k = n THEN v ELSE ns[k]]

\* the first name of the sequence names that ns does not bind, "" when all are bound
RECURSIVE FirstUnbound(_, _)
FirstUnbound(ns, names) ==
    IF names = << >> THEN ""
    ELSE IF ~Bound(ns, Head(names)) THEN Head(names)
    ELSE FirstUnbound(ns, Tail(names))

Ok(k, text) == [cell |-> k, exc |-> "None", name |-> "", text |-> text]

Raise(k, e, n, text) == [cell |-> k, exc |-> e, name |-> n, text |-> text]

NameError(k, n) == Raise(k, "NameError", n, << >>)

NoOutput == [cell |-> 0, exc |-> "None", name |-> "", text |-> << >>]

\* the result of a cell: the namespace it leaves and what it shows
Result(ns, out) == [ns |-> ns, out |-> out]

----------------------------------------------------------------------------
(* Standard-interface notebook *)

NFeatures == 127
NumRounds == 5
Threshold == 5
Decimals == 4

RECURSIVE Pow10(_)
Pow10(n) == IF n = 0 THEN 1 ELSE 10 * Pow10(n - 1)

LabelSeqs(n) == [1..n -> {0, 1}]
ProbSeqs(n) == [1..n -> Probs]

DMatrix(label) == [label |-> label, ncol |-> NFeatures]

\* cell 1: import numpy as np / import xgboost as xgb
CellImport(ns) ==
    Result(Bind(Bind(ns, "np", "numpy"), "xgb", "xgboost"), Ok(1, << >>))

\* a variant of cell 2 that loads the train file only
CellLoadTrainOnly(ns, disk, fail) ==
    IF ~Bound(ns, "xgb") THEN Result(ns, NameError(2, "xgb"))
    ELSE IF fail = 1 THEN Result(ns, Raise(2, "LibraryError", "", << >>))
    ELSE Result(Bind(ns, "dtrain", [label |-> disk.train, ncol |-> 127]), Ok(2, << >>))

\* cell 2: dtrain = xgb.DMatrix(train file) / dtest = xgb.DMatrix(test file)
\* fail = n: the n-th library call of the cell raises
CellLoad(ns, disk, fail) ==
    IF ~Bound(ns, "xgb") THEN Result(ns, NameError(2, "xgb"))
    ELSE IF fail = 1 THEN Result(ns, Raise(2, "LibraryError", "", << >>))
    ELSE LET ns1 == Bind(ns, "dtrain", DMatrix(disk.train))
         IN  IF fail = 2 THEN Result(ns1, Raise(2, "LibraryError", "", << >>))
             ELSE Result(Bind(ns1, "dtest", DMatrix(disk.test)), Ok(2, << >>))

\* cell 3: dtrain.feature_names
CellFeatureNames(ns) ==
    IF ~Bound(ns, "dtrain") THEN Result(ns, NameError(3, "dtrain"))
    ELSE Result(ns, Ok(3, <<ns["dtrain"].ncol>>))

\* cell 4: print the rows and columns of dtrain, then of dtest
CellShapes(ns) ==
    IF ~Bound(ns, "dtrain") THEN Result(ns, NameError(4, "dtrain"))
    ELSE LET first == <<Len(ns["dtrain"].label), ns["dtrain"].ncol>>
         IN  IF ~Bound(ns, "dtest") THEN Result(ns, Raise(4, "NameError", "dtest", first))
             ELSE Result(ns, Ok(4, first \o <<Len(ns["dtest"].label), ns["dtest"].ncol>>))

\* np.unique: the distinct values, ascending
Unique(s) ==
    LET has(v) == \E i \in 1..Len(s) : s[i] = v
    IN  (IF has(0) THEN <<0>> ELSE << >>) \o (IF has(1) THEN <<1>> ELSE << >>)

\* cell 5: print np.unique of the train labels, then of the test labels
CellLabels(ns) ==
    LET n == FirstUnbound(ns, <<"np", "dtrain">>)
    IN  IF n # "" THEN Result(ns, NameError(5, n))
        ELSE LET first == Unique(ns["dtrain"].label)
             IN  IF ~Bound(ns, "dtest") THEN Result(ns, Raise(5, "NameError", "dtest", first))
                 ELSE Result(ns, Ok(5, first \o Unique(ns["dtest"].label)))

StdParams == [objective |-> "binary:logistic", max_depth |-> 2, silent |-> 10, eta |-> 10]

\* cell 6: params = {...} / num_rounds = 5
CellParams(ns) ==
    Result(Bind(Bind(ns, "params", StdParams), "num_rounds", NumRounds), Ok(6, << >>))

Booster(params, dtrain, rounds) == [params |-> params, rounds |-> rounds, rows |-> Len(dtrain.label)]

\* a variant of cell 7 that catches the library's exception and binds bst to
\* an untrained booster
CellTrainCaught(ns, fail) ==
    LET n == FirstUnbound(ns, <<"xgb", "params", "dtrain", "num_rounds">>)
    IN  IF n # "" THEN Result(ns, NameError(7, n))
        ELSE IF fail = 1
             THEN Result(Bind(ns, "bst", Booster(ns["params"], ns["dtrain"], 0)),
                         Raise(7, "LibraryError", "", << >>))
        ELSE Result(Bind(ns, "bst", Booster(ns["params"], ns["dtrain"], ns["num_rounds"])),
                    Ok(7, << >>))

\* cell 7: bst = xgb.train(params, dtrain, num_rounds)
CellTrain(ns, fail) ==
    LET n == FirstUnbound(ns, <<"xgb", "params", "dtrain", "num_rounds">>)
    IN  IF n # "" THEN Result(ns, NameError(7, n))
        ELSE IF fail = 1 THEN Result(ns, Raise(7, "LibraryError", "", << >>))
        ELSE Result(Bind(ns, "bst", Booster(ns["params"], ns["dtrain"], ns["num_rounds"])),
                    Ok(7, << >>))

\* cell 8: watchlist = [(dtest,'test'), (dtrain,'train')]
\*         bst = xgb.train(params, dtrain, num_rounds, watchlist)
CellTrainWatch(ns, fail) ==
    LET n == FirstUnbound(ns, <<"dtest", "dtrain">>)
    IN  IF n # "" THEN Result(ns, NameError(8, n))
        ELSE LET ns1 == Bind(ns, "watchlist", <<ns["dtest"], ns["dtrain"]>>)
                 m == FirstUnbound(ns1, <<"xgb", "params", "dtrain", "num_rounds", "watchlist">>)
             IN  IF m # "" THEN Result(ns1, NameError(8, m))
                 ELSE IF fail = 1 THEN Result(ns1, Raise(8, "LibraryError", "", << >>))
                 ELSE Result(Bind(ns1, "bst",
                                  Booster(ns1["params"], ns1["dtrain"], ns1["num_rounds"])),
                             Ok(8, <<ns1["num_rounds"]>>))

\* cell 9: preds_prob = bst.predict(dtest) / preds_prob
CellPredict(ns, model, fail) ==
    LET n == FirstUnbound(ns, <<"bst", "dtest">>)
    IN  IF n # "" THEN Result(ns, NameError(9, n))
        ELSE IF fail = 1 THEN Result(ns, Raise(9, "LibraryError", "", << >>))
        ELSE Result(Bind(ns, "preds_prob", model), Ok(9, model))

\* a variant that thresholds with >= : a probability of exactly 0.5 counts as 1
ThresholdedGe(probs) == [i \in 1..Len(probs) |-> probs[i] >= 5]

\* preds = preds_prob > 0.5
Thresholded(probs) == [i \in 1..Len(probs) |-> probs[i] > Threshold]

\* labels[i] == preds[i]: a float label against a boolean, True counting as 1
PyEq(label, pred) == label = (IF pred THEN 1 ELSE 0)

\* for i in range(len(preds)): if labels[i] == preds[i]: correct += 1.
\* at: the index the loop is at (0-based); the result holds the count, the
\* last value of i (-1: never assigned) and whether labels[i] was out of range
RECURSIVE CountLoop(_, _, _, _)
CountLoop(labels, preds, at, correct) ==
    IF at >= Len(preds) THEN [correct |-> correct, i |-> at - 1, exc |-> "None"]
    ELSE IF at >= Len(labels) THEN [correct |-> correct, i |-> at, exc |-> "IndexError"]
    ELSE CountLoop(labels, preds, at + 1,
                   IF PyEq(labels[at + 1], preds[at + 1]) THEN correct + 1 ELSE correct)

\* '{0:.4f}'.format(num/den), as the number of 10^-4 units: the nearest, ties to even
Format4(num, den) ==
    LET scaled == num * Pow10(Decimals)
        q == scaled \div den
        r == scaled % den
    IN  IF 2 * r > den \/ (2 * r = den /\ q % 2 = 1) THEN q + 1 ELSE q

\* cell 10: the accuracy cell
CellAccuracy(ns) ==
    IF ~Bound(ns, "dtest") THEN Result(ns, NameError(10, "dtest"))
    ELSE LET ns1 == Bind(ns, "labels", ns["dtest"].label)
         IN  IF ~Bound(ns1, "preds_prob") THEN Result(ns1, NameError(10, "preds_prob"))
             ELSE LET preds == Thresholded(ns1["preds_prob"])
                      loop == CountLoop(ns1["labels"], preds, 0, 0)
                      ns2 == Bind(Bind(ns1, "preds", preds), "correct", loop.correct)
                      ns3 == IF loop.i >= 0 THEN Bind(ns2, "i", loop.i) ELSE ns2
                      n == Len(preds)
                      line1 == <<loop.correct, n>>
                  IN  IF loop.exc # "None" THEN Result(ns3, Raise(10, loop.exc, "", << >>))
                      ELSE IF n = 0 THEN Result(ns3, Raise(10, "ZeroDivisionError", "", line1))
                      ELSE Result(ns3, Ok(10, line1 \o <<Format4(n - loop.correct, n)>>))

StdStep(k, r) ==
    /\ stdcur \in {0, k}
    /\ std' = r.ns
    /\ stdout' = r.out
    /\ stdcur' = IF stdcur = 0 THEN 0 ELSE k + 1
    /\ UNCHANGED <<files, learned>>
    /\ UNCHANGED mvVars

S_Import == StdStep(1, CellImport(std))
S_Load(fails) == \E f \in fails : StdStep(2, CellLoad(std, files, f))
S_FeatureNames == StdStep(3, CellFeatureNames(std))
S_Shapes == StdStep(4, CellShapes(std))
S_Labels == StdStep(5, CellLabels(std))
S_Params == StdStep(6, CellParams(std))
S_Train(fails) == \E f \in fails : StdStep(7, CellTrain(std, f))
S_TrainWatch(fails) == \E f \in fails : StdStep(8, CellTrainWatch(std, f))
S_Predict(fails) == \E f \in fails : StdStep(9, CellPredict(std, learned, f))
S_Accuracy == StdStep(10, CellAccuracy(std))

----------------------------------------------------------------------------
(* Missing-values notebook *)

Seed == 123
NRows == 10
NCols == 5
MvNumRounds == 5
Folds == 2
NaN == -1

\* The j-th number of the stream a generator seeded with s produces, in tenths
\* of [0, 1).  numpy's generator is a deterministic function of the seed and
\* of how many numbers were drawn; which function is immaterial here.
Gen(s, j) == (((s + 1) * (j + 3) + j * j) % 101) % 10

\* np.random.seed(s)
Seeded(s) == [s |-> s, k |-> 0]

\* the generator after n more draws
Advance(g, n) == [s |-> g.s, k |-> g.k + n]

\* np.random.rand(rows, cols), drawn row by row from generator g
Rand(g, rows, cols) ==
    [r \in 0..(rows - 1) |-> [c \in 0..(cols - 1) |-> Gen(g.s, g.k + r * cols + c)]]

\* np.random.randint(high, size=n), drawn from generator g
RandInt(g, high, n) == [i \in 0..(n - 1) |-> Gen(g.s, g.k + i) % high]

\* the states a library call may leave the global generator in:
\* xgb.cv seeds it for its fold permutation
HavocStates == {Seeded(e) : e \in 0..(MaxEntropy - 1)} \cup {Advance(Seeded(Seed), NRows)}

MvResult(ns, g, out, log) == [ns |-> ns, rng |-> g, out |-> out, runs |-> log]

\* cell 1: the imports and seed = 123
CellMvImport(ns, g, log) ==
    LET ns1 == Bind(Bind(ns, "np", "numpy"), "xgb", "xgboost")
        ns2 == Bind(Bind(ns1, "XGBClassifier", "class"), "cross_val_score", "function")
    IN  MvResult(Bind(ns2, "seed", Seed), g, Ok(1, << >>), log)

\* a variant of cell 2 without np.random.seed(seed): it draws from the
\* generator as it finds it
CellDataNoSeed(ns, g, log) ==
    IF ~Bound(ns, "np") THEN MvResult(ns, g, NameError(2, "np"), log)
    ELSE MvResult(Bind(ns, "data_v", Rand(g, 10, 5)), Advance(g, 50), Ok(2, << >>), log)

\* cell 2: np.random.seed(seed) / data_v = np.random.rand(10,5) / data_v
CellData(ns, g, log) ==
    LET n == FirstUnbound(ns, <<"np", "seed">>)
    IN  IF n # "" THEN MvResult(ns, g, NameError(2, n), log)
        ELSE LET g1 == Seeded(ns["seed"])
             IN  MvResult(Bind(ns, "data_v", Rand(g1, NRows, NCols)),
                          Advance(g1, NRows * NCols), Ok(2, << >>), log)

\* the positions the cell sets to np.nan, in the cell's order
NanPositions == <<<<2, 3>>, <<0, 1>>, <<0, 2>>, <<1, 0>>, <<4, 4>>, <<7, 2>>, <<9, 1>>>>

InRange(m, pos) == pos[1] \in DOMAIN m /\ pos[2] \in DOMAIN m[pos[1]]

\* m[r, c] = v on an array of its own
SetItem(m, pos, v) == [m EXCEPT ![pos[1]] = [@ EXCEPT ![pos[2]] = v]]

\* the assignments data_m[r, c] = np.nan one after the other; the result holds
\* the array and whether an index was out of range
RECURSIVE SetAll(_, _)
SetAll(m, todo) ==
    IF todo = << >> THEN [m |-> m, exc |-> "None"]
    ELSE IF ~InRange(m, Head(todo)) THEN [m |-> m, exc |-> "IndexError"]
    ELSE SetAll(SetItem(m, Head(todo), NaN), Tail(todo))

\* np.copy(a): a new array with a's elements
NpCopy(a) == [r \in DOMAIN a |-> [c \in DOMAIN a[r] |-> a[r][c]]]

\* a variant without the copy: data_m = data_v names the same array, so the
\* assignments show through data_v
AddMissingAliased(ns) ==
    LET set == SetAll(ns["data_v"], NanPositions)
    IN  [ns |-> Bind(Bind(ns, "data_v", set.m), "data_m", set.m), exc |-> set.exc]

\* data_m = np.copy(data_v) and the seven assignments, on a namespace that
\* binds data_v
AddMissing(ns) ==
    LET set == SetAll(NpCopy(ns["data_v"]), NanPositions)
    IN  [ns |-> Bind(ns, "data_m", set.m), exc |-> set.exc]

\* cell 3: add some missing values
CellMissing(ns, g, log) ==
    LET n == FirstUnbound(ns, <<"np", "data_v">>)
    IN  IF n # "" THEN MvResult(ns, g, NameError(3, n), log)
        ELSE LET r == AddMissing(ns)
             IN  IF r.exc # "None" THEN MvResult(r.ns, g, Raise(3, r.exc, "", << >>), log)
                 ELSE MvResult(r.ns, g, Ok(3, << >>), log)

\* a variant of cell 4 that draws one label too few
CellLabelShort(ns, g, log) ==
    LET n == FirstUnbound(ns, <<"np", "seed">>)
    IN  IF n # "" THEN MvResult(ns, g, NameError(4, n), log)
        ELSE MvResult(Bind(ns, "label", RandInt(Seeded(ns["seed"]), 2, 9)),
                      Advance(Seeded(ns["seed"]), 9), Ok(4, << >>), log)

\* cell 4: np.random.seed(seed) / label = np.random.randint(2, size=10) / label
CellLabel(ns, g, log) ==
    LET n == FirstUnbound(ns, <<"np", "seed">>)
    IN  IF n # "" THEN MvResult(ns, g, NameError(4, n), log)
        ELSE LET g1 == Seeded(ns["seed"])
             IN  MvResult(Bind(ns, "label", RandInt(g1, 2, NRows)),
                          Advance(g1, NRows), Ok(4, << >>), log)

MvParams == [objective |-> "binary:logistic", max_depth |-> 1, silent |-> 10, eta |-> 5]

\* cell 5: params = {...} / num_rounds = 5
CellMvParams(ns, g, log) ==
    MvResult(Bind(Bind(ns, "params", MvParams), "num_rounds", MvNumRounds), g, Ok(5, << >>), log)

\* xgb.DMatrix(data, label=label, missing=missing)
NpDMatrix(data, label, missing) == [data |-> data, label |-> label, missing |-> missing]

\* cell 6: dtrain_v = xgb.DMatrix(data_v, label=label)
CellDMatrixV(ns, g, log, fail) ==
    LET n == FirstUnbound(ns, <<"xgb", "data_v", "label">>)
    IN  IF n # "" THEN MvResult(ns, g, NameError(6, n), log)
        ELSE IF fail = 1 THEN MvResult(ns, g, Raise(6, "LibraryError", "", << >>), log)
        ELSE MvResult(Bind(ns, "dtrain_v", NpDMatrix(ns["data_v"], ns["label"], "None")),
                      g, Ok(6, << >>), log)

\* the training a native call runs: the booster reads 'eta' (of which
\* 'learning_rate' is another name) and boosts for the rounds it is given
BoosterConfig(p, rounds) ==
    [objective |-> p.objective, max_depth |-> p.max_depth,
     eta |-> IF "eta" \in DOMAIN p THEN p.eta ELSE p.learning_rate,
     silent |-> IF p.silent # 0 THEN 1 ELSE 0, rounds |-> rounds]

\* xgb.cv(params, dtrain, num_rounds, seed=seed) in cell k: one result row per round
NativeCv(k, ns, dname, log, fail, h) ==
    LET n == FirstUnbound(ns, <<"xgb", "params", dname, "num_rounds", "seed">>)
    IN  IF n # "" THEN MvResult(ns, h.old, NameError(k, n), log)
        ELSE IF fail = 1 THEN MvResult(ns, h.new, Raise(k, "LibraryError", "", << >>), log)
        ELSE MvResult(ns, h.new, Ok(k, <<ns["num_rounds"]>>),
                      log \cup {[iface |-> "native",
                                 cfg |-> BoosterConfig(ns["params"], ns["num_rounds"])]})

\* cell 7: xgb.cv(params, dtrain_v, num_rounds, seed=seed)
CellCvV(ns, g, log, fail, h) == NativeCv(7, ns, "dtrain_v", log, fail, [old |-> g, new |-> h])

\* cell 8: dtrain_m = xgb.DMatrix(data_m, label=label, missing=np.nan)
CellDMatrixM(ns, g, log, fail) ==
    LET n == FirstUnbound(ns, <<"xgb", "data_m", "label", "np">>)
    IN  IF n # "" THEN MvResult(ns, g, NameError(8, n), log)
        ELSE IF fail = 1 THEN MvResult(ns, g, Raise(8, "LibraryError", "", << >>), log)
        ELSE MvResult(Bind(ns, "dtrain_m", NpDMatrix(ns["data_m"], ns["label"], "nan")),
                      g, Ok(8, << >>), log)

\* cell 9: xgb.cv(params, dtrain_m, num_rounds, seed=seed)
CellCvM(ns, g, log, fail, h) == NativeCv(9, ns, "dtrain_m", log, fail, [old |-> g, new |-> h])

\* a variant with the learning rate of the standard-interface notebook
SkParamsFast ==
    [objective |-> "binary:logistic", max_depth |-> 1, learning_rate |-> 10,
     silent |-> 10, n_estimators |-> 5]

SkParams ==
    [objective |-> "binary:logistic", max_depth |-> 1, learning_rate |-> 5,
     silent |-> 10, n_estimators |-> 5]

\* cell 10: params = {...} for the Sklearn wrapper
CellSkParams(ns, g, log) == MvResult(Bind(ns, "params", SkParams), g, Ok(10, << >>), log)

\* the keyword arguments XGBClassifier takes, as its repr lists them
EstimatorArgs ==
    {"base_score", "colsample_bylevel", "colsample_bytree", "gamma", "learning_rate",
     "max_delta_step", "max_depth", "min_child_weight", "missing", "n_estimators",
     "nthread", "objective", "reg_alpha", "reg_lambda", "scale_pos_weight", "seed",
     "silent", "subsample"}

\* cell 11: clf = XGBClassifier(**params) / clf
CellClf(ns, g, log) ==
    LET n == FirstUnbound(ns, <<"XGBClassifier", "params">>)
    IN  IF n # "" THEN MvResult(ns, g, NameError(11, n), log)
        ELSE IF ~(DOMAIN ns["params"] \subseteq EstimatorArgs)
             THEN MvResult(ns, g, Raise(11, "TypeError", "", << >>), log)
        ELSE MvResult(Bind(ns, "clf", ns["params"]), g, Ok(11, << >>), log)

\* the training the estimator runs when it is fitted
EstimatorConfig(clf) ==
    [objective |-> clf.objective, max_depth |-> clf.max_depth, eta |-> clf.learning_rate,
     silent |-> IF clf.silent # 0 THEN 1 ELSE 0, rounds |-> clf.n_estimators]

\* cross_val_score(clf, data, label, cv=2, scoring='accuracy') in cell k: one score per fold
SkCv(k, ns, dname, g, log, fail) ==
    LET n == FirstUnbound(ns, <<"cross_val_score", "clf", dname, "label">>)
    IN  IF n # "" THEN MvResult(ns, g, NameError(k, n), log)
        ELSE IF fail = 1 THEN MvResult(ns, g, Raise(k, "LibraryError", "", << >>), log)
        ELSE MvResult(ns, g, Ok(k, <<Folds>>),
                      log \cup {[iface |-> "sklearn", cfg |-> EstimatorConfig(ns["clf"])]})

\* cell 12: cross_val_score(clf, data_v, label, cv=2, scoring='accuracy')
CellSkCvV(ns, g, log, fail) == SkCv(12, ns, "data_v", g, log, fail)

\* cell 13: cross_val_score(clf, data_m, label, cv=2, scoring='accuracy')
CellSkCvM(ns, g, log, fail) == SkCv(13, ns, "data_m", g, log, fail)

\* the kernels of the missing-values notebook: the session under study and a
\* second one opened beside it
Main == "a"
Sessions == {"a", "b"}

MvStep(s, k, r) ==
    /\ mvcur[s] \in {0, k}
    /\ mv' = [mv EXCEPT ![s] = r.ns]
    /\ rng' = [rng EXCEPT ![s] = r.rng]
    /\ mvout' = [mvout EXCEPT ![s] = r.out]
    /\ runs' = [runs EXCEPT ![s] = r.runs]
    /\ mvcur' = [mvcur EXCEPT ![s] = IF mvcur[s] = 0 THEN 0 ELSE k + 1]
    /\ UNCHANGED stdVars

M_Import(s) == MvStep(s, 1, CellMvImport(mv[s], rng[s], runs[s]))
M_Data(s) == MvStep(s, 2, CellData(mv[s], rng[s], runs[s]))
M_Missing(s) == MvStep(s, 3, CellMissing(mv[s], rng[s], runs[s]))
M_Label(s) == MvStep(s, 4, CellLabel(mv[s], rng[s], runs[s]))
M_Params(s) == MvStep(s, 5, CellMvParams(mv[s], rng[s], runs[s]))
M_DMatrixV(s, fails) ==
    \E f \in fails : MvStep(s, 6, CellDMatrixV(mv[s], rng[s], runs[s], f))
M_CvV(s, fails) ==
    \E f \in fails, h \in HavocStates : MvStep(s, 7, CellCvV(mv[s], rng[s], runs[s], f, h))
M_DMatrixM(s, fails) ==
    \E f \in fails : MvStep(s, 8, CellDMatrixM(mv[s], rng[s], runs[s], f))
M_CvM(s, fails) ==
    \E f \in fails, h \in HavocStates : MvStep(s, 9, CellCvM(mv[s], rng[s], runs[s], f, h))
M_SkParams(s) == MvStep(s, 10, CellSkParams(mv[s], rng[s], runs[s]))
M_Clf(s) == MvStep(s, 11, CellClf(mv[s], rng[s], runs[s]))
M_SkCvV(s, fails) ==
    \E f \in fails : MvStep(s, 12, CellSkCvV(mv[s], rng[s], runs[s], f))
M_SkCvM(s, fails) ==
    \E f \in fails : MvStep(s, 13, CellSkCvM(mv[s], rng[s], runs[s], f))

----------------------------------------------------------------------------
(* Specifications *)

\* the files on disk, with up to n test rows, and the predictions a booster
\* trained on them makes for the test rows
InitFiles(n) ==
    \E k \in 0..n :
        /\ files \in [train : {<<0, 1>>}, test : LabelSeqs(k)]
        /\ learned \in ProbSeqs(k)

\* a fresh kernel for the standard-interface notebook
InitStd(n, cur) ==
    /\ InitFiles(n)
    /\ std = Empty
    /\ stdout = NoOutput
    /\ stdcur = cur

\* fresh kernels for the missing-values notebook; a fresh generator is seeded
\* by the operating system, with one of e seeds
InitMv(e, cur) ==
    /\ rng \in [Sessions -> {Seeded(x) : x \in 0..(e - 1)}]
    /\ mv = [s \in Sessions |-> Empty]
    /\ mvout = [s \in Sessions |-> NoOutput]
    /\ mvcur = [s \in Sessions |-> cur]
    /\ runs = [s \in Sessions |-> {}]

InitStdOnly == InitStd(MaxRows, 0) /\ InitMv(1, 0)

InitMvOnly == InitStd(0, 0) /\ InitMv(MaxEntropy, 0)

InitTopDown == InitStd(MaxRows, 1) /\ InitMv(MaxEntropy, 1)

StdNext ==
    \/ S_Import
    \/ S_Load(0..2)
    \/ S_FeatureNames
    \/ S_Shapes
    \/ S_Labels
    \/ S_Params
    \/ S_Train(0..1)
    \/ S_TrainWatch(0..1)
    \/ S_Predict(0..1)
    \/ S_Accuracy

MvNext ==
    \/ M_Import(Main)
    \/ M_Data(Main)
    \/ M_Missing(Main)
    \/ M_Label(Main)
    \/ M_Params(Main)
    \/ M_DMatrixV(Main, 0..1)
    \/ M_CvV(Main, 0..1)
    \/ M_DMatrixM(Main, 0..1)
    \/ M_CvM(Main, 0..1)
    \/ M_SkParams(Main)
    \/ M_Clf(Main)
    \/ M_SkCvV(Main, 0..1)
    \/ M_SkCvM(Main, 0..1)

\* two sessions side by side, each running the data-preparation cells and a
\* native cross-validation
PairNext ==
    \E s \in Sessions :
        \/ M_Import(s)
        \/ M_Data(s)
        \/ M_Missing(s)
        \/ M_Label(s)
        \/ M_Params(s)
        \/ M_DMatrixV(s, 0..1)
        \/ M_CvV(s, 0..1)

\* each notebook run once from its first cell to its last, every library call
\* returning normally
TopDownNext ==
    \/ S_Import
    \/ S_Load({0})
    \/ S_FeatureNames
    \/ S_Shapes
    \/ S_Labels
    \/ S_Params
    \/ S_Train({0})
    \/ S_TrainWatch({0})
    \/ S_Predict({0})
    \/ S_Accuracy
    \/ M_Import(Main)
    \/ M_Data(Main)
    \/ M_Missing(Main)
    \/ M_Label(Main)
    \/ M_Params(Main)
    \/ M_DMatrixV(Main, {0})
    \/ M_CvV(Main, {0})
    \/ M_DMatrixM(Main, {0})
    \/ M_CvM(Main, {0})
    \/ M_SkParams(Main)
    \/ M_Clf(Main)
    \/ M_SkCvV(Main, {0})
    \/ M_SkCvM(Main, {0})

\* the standard-interface notebook, its cells run by hand in any order
SpecStd == InitStdOnly /\ [][StdNext]_vars

\* the missing-values notebook, its cells run by hand in any order
SpecMiss == InitMvOnly /\ [][MvNext]_vars

\* two sessions of the missing-values notebook side by side
SpecPair == InitMvOnly /\ [][PairNext]_vars

\* both notebooks run top to bottom
SpecTopDown == InitTopDown /\ [][TopDownNext]_vars

----------------------------------------------------------------------------
(* Claims *)

\* the indices at which the label is 1 exactly when the probability exceeds 0.5
Agreeing(labels, probs) ==
    {i \in 1..Len(probs) : (labels[i] = 1) <=> (probs[i] > 5)}

\* the accuracy cell has got past its name lookups
AccuracyRan == stdout.cell = 10 /\ stdout.exc # "NameError"

\* e is the multiple of 10^-4 nearest to num/den
Nearest4(e, num, den) ==
    LET d == e * den - num * 10000
    IN  2 * (IF d < 0 THEN -d ELSE d) <= den

\* the two lines the accuracy cell prints for labels and probs
AccuracyPrinted(labels, probs) ==
    LET n == Len(probs)
        c == Cardinality(Agreeing(labels, probs))
    IN  /\ stdout.exc = "None"
        /\ Len(stdout.text) = 3
        /\ stdout.text[1] = c
        /\ stdout.text[2] = n
        /\ Nearest4(stdout.text[3], n - c, n)

\* C1 as stated: for any equal-length labels and preds_prob, correct counts the
\* indices where the label is 1 exactly when the probability exceeds 0.5, the
\* first line reports that count over len(preds) and the printed error is the
\* number of mismatches divided by len(preds).
C1_AsStated ==
    AccuracyRan =>
        /\ Len(std["labels"]) = Len(std["preds_prob"])
        /\ std["correct"] = Cardinality(Agreeing(std["labels"], std["preds_prob"]))
        /\ AccuracyPrinted(std["labels"], std["preds_prob"])

\* C1 as amended: the same for non-empty sequences; for empty ones correct is
\* 0, the first line reports 0 over 0 and the error line raises
\* ZeroDivisionError instead of printing.
C1_Accuracy ==
    AccuracyRan =>
        /\ Len(std["labels"]) = Len(std["preds_prob"])
        /\ std["correct"] = Cardinality(Agreeing(std["labels"], std["preds_prob"]))
        /\ std["preds"] = [i \in 1..Len(std["preds_prob"]) |-> std["preds_prob"][i] > 5]
        /\ IF Len(std["preds_prob"]) > 0
           THEN AccuracyPrinted(std["labels"], std["preds_prob"])
           ELSE /\ stdout.exc = "ZeroDivisionError"
                /\ stdout.text = <<0, 0>>

\* the accuracy cell has printed both lines for two rows, one of them predicted
\* at exactly 0.5, of which one is counted correct
C1_Witness ==
    /\ stdout.cell = 10
    /\ stdout.exc = "None"
    /\ stdout.text = <<1, 2, 5000>>
    /\ \E i \in 1..2 : std["preds_prob"][i] = 5

\* the positions the claim names
SevenPositions == {<<2, 3>>, <<0, 1>>, <<0, 2>>, <<1, 0>>, <<4, 4>>, <<7, 2>>, <<9, 1>>}

Positions(m) == {<<r, c>> \in (0..20) \X (0..20) : r \in DOMAIN m /\ c \in DOMAIN m[r]}

C2_State ==
    Bound(mv[Main], "data_m") =>
        /\ Bound(mv[Main], "data_v")
        /\ LET v == mv[Main]["data_v"]
               m == mv[Main]["data_m"]
           IN  /\ Positions(m) = Positions(v)
               /\ SevenPositions \subseteq Positions(m)
               /\ \A p \in Positions(v) : v[p[1]][p[2]] # NaN
               /\ \A p \in Positions(m) :
                    IF p \in SevenPositions THEN m[p[1]][p[2]] = NaN
                    ELSE m[p[1]][p[2]] = v[p[1]][p[2]]
               /\ Cardinality({p \in Positions(m) : m[p[1]][p[2]] = NaN}) = 7

C2_Step ==
    mvout'[Main].cell = 3 =>
        /\ Bound(mv'[Main], "data_v") = Bound(mv[Main], "data_v")
        /\ Bound(mv[Main], "data_v") => mv'[Main]["data_v"] = mv[Main]["data_v"]

\* C2: the cell that adds missing values leaves data_v as it was, and whenever
\* data_m is bound data_v holds no NaN and data_m equals data_v at every
\* position but the seven named ones, which hold NaN.
C2_CopyThenMark == [](C2_State) /\ [][C2_Step]_vars

\* the cell that adds missing values has just run to its end
C2_Witness ==
    /\ mvout[Main].cell = 3
    /\ mvout[Main].exc = "None"
    /\ Bound(mv[Main], "data_m")

SameWhenBound(n, a, b) == (Bound(a, n) /\ Bound(b, n)) => a[n] = b[n]

\* C3: whatever cells two sessions have run and in whatever order, they agree
\* on data_v and on label; and re-running a cell in one session never changes
\* the value data_v or label has.
C3_Reproducible ==
    /\ [](\A s, t \in Sessions :
            /\ SameWhenBound("data_v", mv[s], mv[t])
            /\ SameWhenBound("label", mv[s], mv[t]))
    /\ [][\A s \in Sessions :
            /\ SameWhenBound("data_v", mv[s], mv'[s])
            /\ SameWhenBound("label", mv[s], mv'[s])]_vars

\* two sessions whose generators differ (one fresh from a library call, one
\* just used by the data cell) both hold data_v and label
C3_Witness ==
    /\ \A s \in Sessions : Bound(mv[s], "data_v") /\ Bound(mv[s], "label")
    /\ mvout["a"].cell = 7 /\ mvout["a"].exc = "None"
    /\ mvout["b"].cell = 2
    /\ rng["a"] # rng["b"]

IsTenByFive(m) ==
    /\ Cardinality(DOMAIN m) = 10
    /\ \A r \in DOMAIN m : Cardinality(DOMAIN m[r]) = 5

IsTenLabels(l) ==
    /\ Cardinality(DOMAIN l) = 10
    /\ \A i \in DOMAIN l : l[i] \in {0, 1}

\* C4: data_v and data_m have 10 rows of 5 columns and label has 10 entries,
\* each 0 or 1, whenever they are bound; so has every DMatrix built from them,
\* and so have the arguments of every cross_val_score call.
C4_Shapes ==
    LET ns == mv[Main]
    IN  /\ Bound(ns, "data_v") => IsTenByFive(ns["data_v"])
        /\ Bound(ns, "data_m") => IsTenByFive(ns["data_m"])
        /\ Bound(ns, "label") => IsTenLabels(ns["label"])
        /\ \A d \in {"dtrain_v", "dtrain_m"} :
             Bound(ns, d) => IsTenByFive(ns[d].data) /\ IsTenLabels(ns[d].label)
        /\ (mvout[Main].cell = 12 /\ mvout[Main].exc = "None") =>
             IsTenByFive(ns["data_v"]) /\ IsTenLabels(ns["label"])
        /\ (mvout[Main].cell = 13 /\ mvout[Main].exc = "None") =>
             IsTenByFive(ns["data_m"]) /\ IsTenLabels(ns["label"])

\* both DMatrix objects are built and cross_val_score has returned on data_m
C4_Witness ==
    /\ Bound(mv[Main], "dtrain_v")
    /\ Bound(mv[Main], "dtrain_m")
    /\ mvout[Main].cell = 13
    /\ mvout[Main].exc = "None"

\* C5: run top to bottom with every library call returning normally, no cell
\* of either notebook fails on an unbound name.
C5_NoNameError ==
    /\ stdout.exc # "NameError"
    /\ mvout[Main].exc # "NameError"

\* both notebooks have run through their last cell
C5_Witness ==
    /\ stdcur = 11
    /\ stdout.cell = 10
    /\ stdout.exc = "None"
    /\ mvcur[Main] = 14
    /\ mvout[Main].cell = 13
    /\ mvout[Main].exc = "None"

\* a training cell has raised inside the library
TrainRaised == stdout'.cell \in {7, 8} /\ stdout'.exc = "LibraryError"

C6_Step ==
    /\ TrainRaised =>
         /\ Bound(std', "bst") = Bound(std, "bst")
         /\ \A n \in DOMAIN std : Bound(std', n) /\ std'[n] = std[n]
         /\ DOMAIN std' \subseteq DOMAIN std \cup {"watchlist"}
    /\ (stdout'.cell = 9 /\ ~Bound(std, "bst")) =>
         /\ stdout'.exc = "NameError"
         /\ stdout'.name = "bst"
         /\ std' = std
    /\ (~Bound(std, "bst") /\ Bound(std', "bst")) =>
         /\ stdout'.cell \in {7, 8}
         /\ stdout'.exc = "None"

C6_State ==
    /\ Bound(std, "preds_prob") => Bound(std, "bst")
    /\ (stdout.cell = 9 /\ stdout.exc = "None") => Bound(std, "bst")

\* C6: a training cell in which xgb.train raises assigns nothing to bst and
\* leaves every name bound before it as it was; while bst is unbound the
\* prediction cell fails with NameError on bst and binds nothing; bst becomes
\* bound only by a training cell that succeeds, and preds_prob is bound only
\* when bst is.
C6_NoHandling == [](C6_State) /\ [][C6_Step]_vars

\* the second training cell bound watchlist and then failed in the library,
\* and the prediction cell run after it failed on bst
C6_Witness ==
    /\ stdout.cell = 9
    /\ stdout.exc = "NameError"
    /\ stdout.name = "bst"
    /\ \A n \in {"xgb", "dtrain", "dtest", "params", "num_rounds", "watchlist"} : Bound(std, n)
    /\ ~Bound(std, "preds_prob")

\* the training both sections are said to configure
SameTraining ==
    [objective |-> "binary:logistic", max_depth |-> 1, eta |-> 5, silent |-> 1, rounds |-> 5]

\* C8: every training the session runs, through the native interface or
\* through the Sklearn wrapper, is configured alike: binary:logistic, depth 1,
\* learning rate 0.5, 5 boosting rounds, silent.
C8_SameConfig ==
    /\ \A a \in runs[Main] : a.cfg = SameTraining
    /\ Bound(mv[Main], "clf") => EstimatorConfig(mv[Main]["clf"]) = SameTraining

\* the session has cross-validated through both interfaces
C8_Witness ==
    /\ \E a \in runs[Main] : a.iface = "native"
    /\ \E a \in runs[Main] : a.iface = "sklearn"

====
